---------------------------- MODULE Spec2Model ----------------------------
(***************************************************************************)
(* Model of s01_fetch_data.py: the fetch / consolidate / incremental-merge *)
(* pipeline of crawl_magnificent7 and the two source extractors.           *)
(*                                                                         *)
(* Conventions                                                             *)
(*  - A Python value delivered by a source is a record [k, hi, lo, s]:     *)
(*    k = "none" (None), k = "num" (the number hi*10^6 + lo/1000, so that  *)
(*    10^12 fits TLC's 32-bit integers), k = "str" (the string s).         *)
(*  - A Fetch_Date is the day number; strftime('%Y-%m-%d') orders as the   *)
(*    day number does.                                                     *)
(*  - A CSV file is [exists, rows]; a cell of a long-table row is the text *)
(*    the file holds.  A DataFrame cell is [na, txt]: na is pandas' NaN,   *)
(*    txt the text to_csv writes for the cell.                             *)
(***************************************************************************)
EXTENDS Integers, Sequences, FiniteSets, TLC

\* ------------------------------------------------------------------ bounds
\* Number of invocations of crawl_magnificent7 explored, and the last day
\* the clock reaches.
MaxRuns == 2

\* Number of source calls, over all invocations, that do not deliver the
\* usual data: a fetch that fails, a bag with a text or without the keys, a
\* browser step that raises.
MaxFailures == 3

\* ------------------------------------------------------------ Python values
None == [k |-> "none", hi |-> 0, lo |-> 0, s |-> ""]
Num(h, l) == [k |-> "num", hi |-> h, lo |-> l, s |-> ""]
Str(t) == [k |-> "str", hi |-> 0, lo |-> 0, s |-> t]

\* float('nan')
NaNFloat == [k |-> "nan", hi |-> 0, lo |-> 0, s |-> ""]

\* value is None or pd.isna(value)
IsMissing(v) == v.k \in {"none", "nan"}

Digits2(n) == IF n < 10 THEN "0" \o ToString(n) ELSE ToString(n)

Digits3(n) == IF n < 100 THEN "0" \o Digits2(n) ELSE ToString(n)

Pad6(n) == IF n < 1000 THEN "000" \o Digits3(n) ELSE Digits3(n \div 1000) \o Digits3(n % 1000)

\* n / d rounded to the nearest integer as Python's float formatting does
\* (ties to even); more says that digits below n's unit are not all zero
RoundDiv(n, d, more) ==
    LET q == n \div d
        r == n % d
    IN  IF 2 * r > d \/ (2 * r = d /\ (more \/ q % 2 = 1)) THEN q + 1 ELSE q

\* the text of h hundredths with exactly two decimals
Fix2(h) == ToString(h \div 100) \o "." \o Digits2(h % 100)

\* f"{num:.2f}" of a number
Plain2(v) ==
    LET h == RoundDiv(v.lo, 10, FALSE)
        top == v.hi + (h \div 100000000)
        low == h % 100000000
    IN  IF top = 0 THEN Fix2(low)
        ELSE ToString(top) \o Pad6(low \div 100) \o "." \o Digits2(low % 100)

\* repr of a float, as DataFrame.to_csv writes a float64 cell
ReprFloat(v) ==
    LET int == v.lo \div 1000
        m == v.lo % 1000
        frac == IF m % 100 = 0 THEN ToString(m \div 100)
                ELSE IF m % 10 = 0 THEN Digits2(m \div 10) ELSE Digits3(m)
    IN  (IF v.hi = 0 THEN ToString(int) ELSE ToString(v.hi) \o Pad6(int)) \o "." \o frac

\* ------------------------------------------------------ format_large_number
\* thresholds compared with > in place of >=
FormatLargeStrict(v) ==
    IF IsMissing(v) THEN "N/A"
    ELSE IF v.k = "str" THEN (IF v.s = "Infinity" THEN "infT" ELSE v.s)
    ELSE IF v.hi > 1000000 \/ (v.hi = 1000000 /\ v.lo > 0) THEN Fix2(RoundDiv(v.hi, 10000, v.lo > 0)) \o "T"
    ELSE IF v.hi > 1000 \/ (v.hi = 1000 /\ v.lo > 0) THEN Fix2(RoundDiv(v.hi, 10, v.lo > 0)) \o "B"
    ELSE IF v.hi > 1 \/ (v.hi = 1 /\ v.lo > 0) THEN Fix2(v.hi * 100 + RoundDiv(v.lo, 10000000, FALSE)) \o "M"
    ELSE Plain2(v)

format_large_number(v) ==
    IF IsMissing(v) THEN "N/A"
    \* float("Infinity") is inf, which is >= 10^12; any other text makes
    \* float() raise ValueError and the handler returns str(num)
    ELSE IF v.k = "str" THEN (IF v.s = "Infinity" THEN "infT" ELSE v.s)
    ELSE IF v.hi >= 1000000 THEN Fix2(RoundDiv(v.hi, 10000, v.lo > 0)) \o "T"
    ELSE IF v.hi >= 1000 THEN Fix2(RoundDiv(v.hi, 10, v.lo > 0)) \o "B"
    ELSE IF v.hi >= 1 THEN Fix2(v.hi * 100 + RoundDiv(v.lo, 10000000, FALSE)) \o "M"
    ELSE Plain2(v)

\* f"{value:.2f}" raises ValueError on a string
PlainRaises(v) == v.k = "str"

\* f"{value:.2f}" if value is not None and not pd.isna(value) else "N/A"
PlainFormat(v) == IF IsMissing(v) THEN "N/A" ELSE Plain2(v)

MonetaryNames == {"Market Cap", "Enterprise Value"}

\* ---------------------------------------------------------- term dictionary
\* dict.get(key, default) of a dict built by assigning the pairs in order
DictGet(pairs, key, default) ==
    LET hits == {i \in 1..Len(pairs) : pairs[i][1] = key}
    IN  IF hits = {} THEN default
        ELSE pairs[CHOOSE i \in hits : \A j \in hits : j <= i][2]

NoTermFile == [exists |-> FALSE, rows |-> <<>>]

\* tool/term_conversion_table.csv with every cell filled
TermFile ==
    [exists |-> TRUE,
     rows |-> << <<"Trailing P/E", "Trailing P/E", "PE Ratio">>,
                 <<"Forward P/E", "Forward P/E", "Forward PE">>,
                 <<"PEG Ratio", "PEG Ratio (5yr expected)", "PEG Ratio">>,
                 <<"Price/Sales", "Price/Sales (ttm)", "PS Ratio">>,
                 <<"Price/Book", "Price/Book (mrq)", "PB Ratio">> >>]

TermFiles == {NoTermFile, TermFile}

\* row[...].strip() raises AttributeError on an empty cell (read as NaN)
LoadTermsRaises(file) ==
    file.exists /\ \E i \in 1..Len(file.rows) : \E c \in 1..3 : file.rows[i][c] = ""

\* a loader that fills each source's mapping from the other source's column
LoadTermsSwapped(file) ==
    IF ~file.exists THEN [yahoo_finance |-> <<>>, stockanalysis |-> <<>>]
    ELSE [yahoo_finance |-> [i \in 1..Len(file.rows) |-> <<file.rows[i][3], file.rows[i][1]>>],
          stockanalysis |-> [i \in 1..Len(file.rows) |-> <<file.rows[i][2], file.rows[i][1]>>]]

load_term_conversion_table(file) ==
    IF ~file.exists THEN [yahoo_finance |-> <<>>, stockanalysis |-> <<>>]
    ELSE [yahoo_finance |-> [i \in 1..Len(file.rows) |-> <<file.rows[i][2], file.rows[i][1]>>],
          stockanalysis |-> [i \in 1..Len(file.rows) |-> <<file.rows[i][3], file.rows[i][1]>>]]

\* ------------------------------------------------------------------ tickers
\* config/01_config_fetch.yaml
ConfigTickers == <<"AAPL", "MSFT">>

\* the file: whether it exists, whether yaml.safe_load gives a mapping (an
\* empty document gives None), and the list under its key tickers (empty
\* when the key is missing or holds nothing)
ConfigFile == [exists |-> TRUE, mapping |-> TRUE, tickers |-> ConfigTickers]

NoConfigFile == [exists |-> FALSE, mapping |-> FALSE, tickers |-> <<>>]

EmptyConfigFile == [exists |-> TRUE, mapping |-> FALSE, tickers |-> <<>>]

DefaultTickers == <<"AAPL", "MSFT", "GOOG", "AMZN", "META", "NVDA", "TSLA">>

\* config.get('tickers', []) raises AttributeError when config is None
LoadTickersRaises(config) == config.exists /\ ~config.mapping

load_tickers_from_config(config) ==
    IF ~config.exists THEN DefaultTickers
    ELSE IF config.tickers = <<>> THEN DefaultTickers
    ELSE config.tickers

\* ----------------------------------------------------- structured source
\* ticker.info, as the pairs fetch_yahoo_finance_data builds from it
InfoFull ==
    << <<"Market Cap", Num(3870000, 0)>>,
       <<"Enterprise Value", Num(245120, 0)>>,
       <<"Trailing P/E", Num(0, 45490)>>,
       <<"Forward P/E", Num(0, 30500)>>,
       <<"PEG Ratio (5yr expected)", None>>,
       <<"Price/Sales (ttm)", Num(0, 9120)>>,
       <<"Price/Book (mrq)", Num(0, 60000)>>,
       <<"Enterprise Value/Revenue", Num(0, 9304)>>,
       <<"Enterprise Value/EBITDA", Num(0, 27100)>> >>

\* the same with a ratio the API delivers as the text "Infinity"
InfoText == [InfoFull EXCEPT ![3] = <<"Trailing P/E", Str("Infinity")>>]

\* a bag without any of the nine keys: every info.get(...) is None
InfoEmpty == [i \in 1..Len(InfoFull) |-> <<InfoFull[i][1], None>>]

Infos == {InfoFull, InfoText, InfoEmpty}

\* fetch_yahoo_finance_data: [ok |-> FALSE] is the return of None
YahooResults == {[ok |-> FALSE, measures |-> <<>>]} \cup {[ok |-> TRUE, measures |-> m] : m \in Infos}

\* ---------------------------------------------------- rendered-text source
\* A stripped page line is its tokens and the whitespace between them, in
\* order: <<token, space, token, space, token, ...>>.
SALabels == << <<"PE", "Ratio">>, <<"Forward", "PE">>, <<"PS", "Ratio">>, <<"PB", "Ratio">>, <<"PEG", "Ratio">> >>

LabelText(l) == l[1] \o " " \o l[2]

\* line_stripped.split()
Parts(line) == [i \in 1..((Len(line) + 1) \div 2) |-> line[2 * i - 1]]

\* whitespace that begins with a blank
BlankFirst == {" ", "  "}

\* line_stripped.startswith(label + ' ')
StartsWith(line, l) ==
    Len(line) >= 5 /\ line[1] = l[1] /\ line[2] = " " /\ line[3] = l[2] /\ line[4] \in BlankFirst

\* the texts float() accepts among those the pages hold, with their values
FloatTokens == << <<"45.49", Num(0, 45490)>>, <<"30.5", Num(0, 30500)>>, <<"9.1", Num(0, 9100)>>, <<"60.25", Num(0, 60250)>> >>

FloatRaises(tok) == \A i \in 1..Len(FloatTokens) : FloatTokens[i][1] # tok

\* measures = {"PE Ratio": None, ...}
InitialMeasures == [i \in 1..Len(SALabels) |-> <<LabelText(SALabels[i]), None>>]

\* an except clause that returns None
ExceptNoRecord == <<>>

\* the record the except clause returns
ExceptRecord == [i \in 1..Len(SALabels) |-> <<LabelText(SALabels[i]), None>>]

\* a loop body that does not count the tokens of the line
ParseLineAnyLength(measures, line) ==
    LET hits == {i \in 1..Len(SALabels) : StartsWith(line, SALabels[i])}
    IN  IF hits = {} THEN measures
        ELSE LET i == CHOOSE j \in hits : \A h \in hits : j <= h
             IN  IF FloatRaises(Parts(line)[3]) THEN measures
                 ELSE [measures EXCEPT ![i] = <<measures[i][1], DictGet(FloatTokens, Parts(line)[3], None)>>]

\* one pass of the loop body over a line: the if/elif chain of the labels
ParseLine(measures, line) ==
    LET hits == {i \in 1..Len(SALabels) : StartsWith(line, SALabels[i]) /\ Len(Parts(line)) = 3}
    IN  IF hits = {} THEN measures
        ELSE LET i == CHOOSE j \in hits : \A h \in hits : j <= h
             IN  IF FloatRaises(Parts(line)[3]) THEN measures
                 ELSE [measures EXCEPT ![i] = <<measures[i][1], DictGet(FloatTokens, Parts(line)[3], None)>>]

RECURSIVE ParseLines(_, _)
ParseLines(measures, lines) ==
    IF lines = <<>> THEN measures
    ELSE ParseLines(ParseLine(measures, Head(lines)), Tail(lines))

\* the visible text of a statistics page
PageFull ==
    << <<"Valuation", " ", "Ratios">>,
       <<"PE", " ", "Ratio", " ", "45.49">>,
       <<"Forward", " ", "PE", " ", "30.5">>,
       <<"PS", " ", "Ratio", " ", "9.1">>,
       <<"PB", " ", "Ratio", " ", "60.25">>,
       <<"PEG", " ", "Ratio", " ", "n/a">>,
       <<"PE", " ", "Ratio", " ", "N/A", " ", "extra">> >>

Pages == {PageFull}

\* what the browser does at each step of fetch_stockanalysis_data
Raises == "raises"

DriverOutcomes == {"ok", Raises}

\* ------------------------------------------------------- tidy record builder
YahooRow(date, ticker, maps, pair) ==
    [Fetch_Date |-> date, Data_Source |-> "yahoo_finance", Ticker |-> ticker,
     Measure |-> DictGet(maps.yahoo_finance, pair[1], pair[1]),
     Value_Raw |-> pair[2],
     Value_Formatted |-> IF pair[1] \in MonetaryNames THEN format_large_number(pair[2])
                         ELSE PlainFormat(pair[2])]

StockAnalysisRow(date, ticker, maps, pair) ==
    [Fetch_Date |-> date, Data_Source |-> "stockanalysis", Ticker |-> ticker,
     Measure |-> DictGet(maps.stockanalysis, pair[1], pair[1]),
     Value_Raw |-> pair[2],
     Value_Formatted |-> IF DictGet(maps.stockanalysis, pair[1], pair[1]) \in MonetaryNames
                         THEN format_large_number(pair[2])
                         ELSE PlainFormat(pair[2])]

\* the first pair whose formatting raises (Len + 1: none does)
YahooStop(measures) ==
    LET bad == {i \in 1..Len(measures) : measures[i][1] \notin MonetaryNames /\ PlainRaises(measures[i][2])}
    IN  IF bad = {} THEN Len(measures) + 1 ELSE CHOOSE i \in bad : \A j \in bad : i <= j

\* a loop whose rows are all lost when the formatting of one raises
YahooRowsAllOrNothing(date, ticker, maps, measures) ==
    IF YahooStop(measures) <= Len(measures) THEN <<>>
    ELSE [i \in 1..Len(measures) |-> YahooRow(date, ticker, maps, measures[i])]

YahooRows(date, ticker, maps, measures) ==
    [i \in 1..(YahooStop(measures) - 1) |-> YahooRow(date, ticker, maps, measures[i])]

\* a loop that builds no row for a record without any value
StockAnalysisRowsWithValues(date, ticker, maps, measures) ==
    IF \A i \in 1..Len(measures) : IsMissing(measures[i][2]) THEN <<>>
    ELSE [i \in 1..Len(measures) |-> StockAnalysisRow(date, ticker, maps, measures[i])]

StockAnalysisRows(date, ticker, maps, measures) ==
    [i \in 1..Len(measures) |-> StockAnalysisRow(date, ticker, maps, measures[i])]

\* ------------------------------------------------------------- CSV and pandas
NaN == [na |-> TRUE, txt |-> ""]

Cell(t) == [na |-> FALSE, txt |-> t]

\* pd.DataFrame(all_data): a None becomes NaN, a number a float64
DataFrame(data) ==
    [i \in 1..Len(data) |->
        [data[i] EXCEPT !.Value_Raw = IF IsMissing(@) THEN NaN ELSE Cell(ReprFloat(@)),
                        !.Value_Formatted = Cell(@)]]

\* DataFrame.to_csv(index=False): NaN is written as the empty text
to_csv(frame) ==
    [exists |-> TRUE,
     rows |-> [i \in 1..Len(frame) |->
        [frame[i] EXCEPT !.Value_Raw = @.txt, !.Value_Formatted = @.txt]]]

\* the texts pd.read_csv takes for a missing value (its default na_values)
NAValues == {"", "N/A", "NA", "n/a", "NaN", "nan", "NULL", "null", "None", "#N/A", "<NA>"}

\* the numbers a plain two-decimal Value_Formatted can hold
PlainValues ==
    UNION {{m[i][2] : i \in 1..Len(m)} : m \in Infos}
    \cup {FloatTokens[i][2] : i \in 1..Len(FloatTokens)}

\* a text of the Value_Formatted column that read_csv parses as a float,
\* paired with the text to_csv writes for that float
FloatTexts ==
    UNION {{<<Plain2(v), ReprFloat(Num(0, 10 * RoundDiv(v.lo, 10, FALSE)))>>,
            <<ReprFloat(Num(0, 10 * RoundDiv(v.lo, 10, FALSE))), ReprFloat(Num(0, 10 * RoundDiv(v.lo, 10, FALSE)))>>}
           : v \in {x \in PlainValues : x.k = "num" /\ x.hi = 0}}

ParsesAsFloat(t) == \E p \in FloatTexts : p[1] = t

FloatText(t) == (CHOOSE p \in FloatTexts : p[1] = t)[2]

\* read_csv infers float64 for a column whose every text is missing or a number
NumericColumn(rows) ==
    \A i \in 1..Len(rows) : rows[i].Value_Formatted \in NAValues \/ ParsesAsFloat(rows[i].Value_Formatted)

ReadCell(t, numeric) ==
    IF t \in NAValues THEN NaN ELSE IF numeric THEN Cell(FloatText(t)) ELSE Cell(t)

\* pd.read_csv(full_csv)
read_csv(file) ==
    [i \in 1..Len(file.rows) |->
        [file.rows[i] EXCEPT !.Value_Raw = ReadCell(@, FALSE),
                             !.Value_Formatted = ReadCell(@, NumericColumn(file.rows))]]

NoFile == [exists |-> FALSE, rows |-> <<>>]

Sources == {"yahoo_finance", "stockanalysis"}

\* a coverage check that never finds today's rows
ExistingTickersNone(file, date) == {}

\* today_data.groupby('Ticker')['Data_Source'].nunique(), kept where it is 2
ExistingTickersToday(file, date) ==
    IF ~file.exists THEN {}
    ELSE LET df == read_csv(file)
             today_data == {i \in 1..Len(df) : df[i].Fetch_Date = date}
             nunique(t) == Cardinality({df[i].Data_Source : i \in {j \in today_data : df[j].Ticker = t}})
         IN  {t \in {df[i].Ticker : i \in today_data} : nunique(t) = 2}

\* a filter that keeps every configured ticker
WithoutNothing(seq, set) == seq

\* [t for t in tickers if t not in existing_tickers_today]
RECURSIVE Without(_, _)
Without(seq, set) ==
    IF seq = <<>> THEN <<>>
    ELSE IF Head(seq) \in set THEN Without(Tail(seq), set)
    ELSE <<Head(seq)>> \o Without(Tail(seq), set)

\* full_df['Fetch_Date'].max()
LatestDate(df) == CHOOSE d \in {df[i].Fetch_Date : i \in 1..Len(df)} : \A i \in 1..Len(df) : df[i].Fetch_Date <= d

\* latest_data.pivot_table(index=[Ticker, Data_Source], columns=Measure,
\* values=Value_Formatted, aggfunc='first').reset_index(), with Fetch_Date
\* inserted: 'first' is the first non-NaN value of a group, a group with no
\* such value is dropped, and a cell without a group is NaN.  The order of
\* the rows and of the columns is not modelled.
PivotTable(df) ==
    LET latest_date == LatestDate(df)
        latest == {i \in 1..Len(df) : df[i].Fetch_Date = latest_date}
        group(t, src, m) == {i \in latest : df[i].Ticker = t /\ df[i].Data_Source = src
                                            /\ df[i].Measure = m /\ ~df[i].Value_Formatted.na}
        first(t, src, m) == df[CHOOSE i \in group(t, src, m) : \A j \in group(t, src, m) : i <= j].Value_Formatted
        kept == {i \in latest : ~df[i].Value_Formatted.na}
        columns == {df[i].Measure : i \in kept}
        index == {<<df[i].Ticker, df[i].Data_Source>> : i \in kept}
    IN  [columns |-> columns,
         rows |-> {[Fetch_Date |-> latest_date, Ticker |-> p[1], Data_Source |-> p[2],
                    cells |-> [m \in columns |-> IF group(p[1], p[2], m) = {} THEN NaN
                                                 ELSE first(p[1], p[2], m)]] : p \in index}]

\* current_df.to_csv(current_csv, index=False)
WideCsv(table) ==
    [exists |-> TRUE, columns |-> table.columns,
     rows |-> {[r EXCEPT !.cells = [m \in table.columns |-> r.cells[m].txt]] : r \in table.rows}]

NoWideFile == [exists |-> FALSE, columns |-> {}, rows |-> {}]

\* ---------------------------------------------------------------- the state
VARIABLES
    today,          \* the day datetime.now() reports
    runs,           \* invocations of crawl_magnificent7 started so far
    term_file,      \* tool/term_conversion_table.csv
    full_csv,       \* csv/valuation_measures_full.csv (the long table)
    current_csv,    \* csv/valuation_measures_current.csv (the wide table)
    pc,             \* where the running invocation stands
    fetch_date,     \* locals of crawl_magnificent7 ...
    term_mappings,
    tickers,
    idx,            \* position of the for loop in tickers
    all_data,
    failed,
    driver,         \* locals of fetch_stockanalysis_data ...
    sa_result,      \* the value its return statement has chosen
    sa_raised,      \* whether it is leaving through the except clause
    sessions,       \* browser sessions created and not yet quit
    failures,       \* source calls so far that did not deliver the usual data
    calls,          \* the fetch calls of the running invocation, in order
    returns,        \* what each of them returned, in order
    prev_date,      \* fetch_date of the invocation before the running one
    start_full,     \* the two files as the running invocation found them
    start_current,
    input,          \* the arguments a function is applied to on its own
    output          \* what it returned for them

vars == <<today, runs, term_file, full_csv, current_csv, pc, fetch_date, term_mappings,
          tickers, idx, all_data, failed, driver, sa_result, sa_raised, sessions, failures,
          calls, returns, prev_date, start_full, start_current, input, output>>

\* a function applied on its own: its arguments, and <<what it returned>>
alone == <<input, output>>

sa_locals == <<driver, sa_result, sa_raised>>

history == <<calls, returns, prev_date, start_full, start_current>>

files == <<term_file, full_csv, current_csv>>

locals == <<fetch_date, term_mappings, tickers, idx, all_data, failed>>

\* before the first invocation
Idle ==
    /\ today = 1
    /\ runs = 0
    /\ full_csv = NoFile
    /\ current_csv = NoWideFile
    /\ pc = "idle"
    /\ fetch_date = 0
    /\ term_mappings = load_term_conversion_table(NoTermFile)
    /\ tickers = <<>>
    /\ idx = 1
    /\ all_data = <<>>
    /\ failed = <<>>
    /\ driver = FALSE
    /\ sa_result = <<>>
    /\ sa_raised = FALSE
    /\ sessions = 0
    /\ failures = 0
    /\ calls = <<>>
    /\ returns = <<>>
    /\ prev_date = 0
    /\ start_full = NoFile
    /\ start_current = NoWideFile

Init ==
    /\ term_file \in TermFiles
    /\ Idle
    /\ input = <<>>
    /\ output = <<>>

\* a loop that is left after its first ticker
AfterFirstTicker == "save"

\* where the for loop goes after the ticker at idx
AfterTicker == IF idx < Len(tickers) THEN "yahoo" ELSE "save"

\* midnight passes between two invocations
Midnight ==
    /\ pc \in {"idle", "done"}
    /\ today < MaxRuns
    /\ today' = today + 1
    /\ UNCHANGED <<alone, runs, files, pc, locals, sa_locals, sessions, failures, history>>

\* a return before the loop that first saves the table it has read
ReturnEarlyRewriting ==
    /\ full_csv' = IF full_csv.exists THEN to_csv(read_csv(full_csv)) ELSE full_csv
    /\ UNCHANGED current_csv

\* "Nothing to fetch": the return before the loop
ReturnEarly == UNCHANGED <<full_csv, current_csv>>

\* crawl_magnificent7, up to the for loop
StartRun ==
    /\ pc \in {"idle", "done"}
    /\ runs < MaxRuns
    /\ runs' = runs + 1
    /\ fetch_date' = today
    /\ prev_date' = fetch_date
    /\ all_data' = <<>>
    /\ failed' = <<>>
    /\ calls' = <<>>
    /\ returns' = <<>>
    /\ idx' = 1
    /\ start_full' = full_csv
    /\ start_current' = current_csv
    /\ IF LoadTermsRaises(term_file)
       THEN /\ pc' = "crashed"
            /\ UNCHANGED <<term_mappings, tickers, full_csv, current_csv>>
       ELSE /\ term_mappings' = load_term_conversion_table(term_file)
            /\ tickers' = Without(load_tickers_from_config(ConfigFile), ExistingTickersToday(full_csv, today))
            /\ IF tickers' = <<>>
               THEN pc' = "done" /\ ReturnEarly
               ELSE pc' = "yahoo" /\ UNCHANGED <<full_csv, current_csv>>
    /\ UNCHANGED <<alone, today, term_file, sa_locals, sessions, failures>>

\* a loop body that gives the ticker up when the first source has no record
StopsWithoutRecord(ok, raised) == ok /\ ~raised

\* whether the loop body goes on to the second source after the first
\* (ok: a record came back; raised: building its rows raised)
GoesOnToStockAnalysis(ok, raised) == ~raised

\* the structured source delivered what it usually does
Usual(r) == r = [ok |-> TRUE, measures |-> InfoFull]

\* the call of fetch_yahoo_finance_data and the rows built from its record;
\* a row whose formatting raises ends the ticker in the except clause
Yahoo ==
    /\ pc = "yahoo"
    /\ \E r \in YahooResults :
        LET ticker == tickers[idx]
            rows == YahooRows(fetch_date, ticker, term_mappings, r.measures)
            raised == r.ok /\ YahooStop(r.measures) <= Len(r.measures)
            on == GoesOnToStockAnalysis(r.ok, raised)
        IN  /\ Usual(r) \/ failures < MaxFailures
            /\ failures' = IF Usual(r) THEN failures ELSE failures + 1
            /\ calls' = Append(calls, <<"yahoo_finance", ticker>>)
            /\ returns' = Append(returns, [fn |-> "yahoo_finance", ticker |-> ticker,
                                           record |-> r.ok, measures |-> r.measures,
                                           raised |-> FALSE, session |-> FALSE])
            /\ all_data' = IF r.ok THEN all_data \o rows ELSE all_data
            /\ failed' = IF raised THEN Append(failed, ticker) ELSE failed
            /\ pc' = IF on THEN "sa_driver" ELSE AfterTicker
            /\ idx' = IF on THEN idx ELSE idx + 1
    /\ UNCHANGED <<alone, today, runs, files, fetch_date, term_mappings, tickers, sa_locals,
                   sessions, prev_date, start_full, start_current>>

\* fetch_stockanalysis_data: driver = webdriver.Chrome(options=chrome_options)
SADriver ==
    /\ pc = "sa_driver"
    /\ calls' = Append(calls, <<"stockanalysis", tickers[idx]>>)
    /\ \E o \in DriverOutcomes :
        IF o = Raises
        THEN /\ failures < MaxFailures
             /\ failures' = failures + 1
             /\ driver' = FALSE
             /\ sa_result' = ExceptRecord
             /\ sa_raised' = TRUE
             /\ pc' = "sa_finally"
             /\ UNCHANGED sessions
        ELSE /\ driver' = TRUE
             /\ sessions' = sessions + 1
             /\ pc' = "sa_get"
             /\ UNCHANGED <<sa_result, sa_raised, failures>>
    /\ UNCHANGED <<alone, today, runs, files, locals, returns, prev_date, start_full, start_current>>

\* fetch_stockanalysis_data: driver.get(url) and the settle delay
SAGet ==
    /\ pc = "sa_get"
    /\ \E o \in DriverOutcomes :
        IF o = Raises
        THEN /\ failures < MaxFailures
             /\ failures' = failures + 1
             /\ sa_result' = ExceptRecord
             /\ sa_raised' = TRUE
             /\ pc' = "sa_finally"
        ELSE pc' = "sa_body" /\ UNCHANGED <<sa_result, sa_raised, failures>>
    /\ UNCHANGED <<alone, today, runs, files, locals, driver, sessions, history>>

\* fetch_stockanalysis_data: the body's text and the scan of its lines
SABody ==
    /\ pc = "sa_body"
    /\ \E o \in Pages \cup {<<Raises>>} :
        /\ o \in Pages \/ failures < MaxFailures
        /\ failures' = IF o \in Pages THEN failures ELSE failures + 1
        /\ sa_result' = IF o = <<Raises>> THEN ExceptRecord ELSE ParseLines(InitialMeasures, o)
        /\ sa_raised' = (o = <<Raises>>)
    /\ pc' = "sa_finally"
    /\ UNCHANGED <<alone, today, runs, files, locals, driver, sessions, history>>

\* a quit at the end of the try block instead of in a finally clause
TeardownOnSuccess(live) == IF driver /\ ~sa_raised THEN live - 1 ELSE live

\* the finally clause: if driver: driver.quit()
Teardown(live) == IF driver THEN live - 1 ELSE live

\* fetch_stockanalysis_data: the finally clause and the return, then the
\* caller's rows for the record and the end of the loop body
SAReturn ==
    /\ pc = "sa_finally"
    /\ sessions' = Teardown(sessions)
    /\ driver' = FALSE
    /\ sa_result' = <<>>
    /\ sa_raised' = FALSE
    /\ returns' = Append(returns, [fn |-> "stockanalysis", ticker |-> tickers[idx],
                                   record |-> sa_result # <<>>, measures |-> sa_result,
                                   raised |-> sa_raised, session |-> driver])
    /\ all_data' = all_data \o StockAnalysisRows(fetch_date, tickers[idx], term_mappings, sa_result)
    /\ pc' = AfterTicker
    /\ idx' = idx + 1
    /\ UNCHANGED <<alone, today, runs, files, fetch_date, term_mappings, tickers, failed, failures,
                   calls, prev_date, start_full, start_current>>

\* full_df: the rows read from the long table followed by the new rows
FullFrame(file, data) ==
    IF file.exists THEN read_csv(file) \o DataFrame(data) ELSE DataFrame(data)

\* crawl_magnificent7 after the for loop: nothing to save, or both files
Save ==
    /\ pc = "save"
    /\ pc' = "done"
    /\ IF all_data = <<>>
       THEN UNCHANGED <<full_csv, current_csv>>
       ELSE /\ full_csv' = to_csv(FullFrame(full_csv, all_data))
            /\ current_csv' = WideCsv(PivotTable(FullFrame(full_csv, all_data)))
    /\ UNCHANGED <<alone, today, runs, term_file, locals, sa_locals, sessions, failures, history>>

Next == Midnight \/ StartRun \/ Yahoo \/ SADriver \/ SAGet \/ SABody \/ SAReturn \/ Save

Spec == Init /\ [][Next]_vars

\* the variables of an invocation, which a function applied on its own leaves alone
invocation == <<today, runs, files, pc, locals, sa_locals, sessions, failures, history>>

\* -------------------------------------------- the scan of one page line
\* whitespace between two tokens of a line
Whitespace == BlankFirst \cup {"\t"}

\* stripped lines of one to four tokens
Lines ==
    LET first == {"PE", "PEG", "Forward", "PS", "PB", "Valuation"}
        second == {"Ratio", "PE"}
        third == {"9.1", "60.25", "N/A"}
    IN  {<<a>> : a \in first}
        \cup {<<a, w, b>> : a \in first, w \in Whitespace, b \in second}
        \cup {<<a, w, b, x, c>> : a \in first, w \in Whitespace, b \in second, x \in Whitespace, c \in third}
        \cup {<<a, " ", b, " ", c, " ", "extra">> : a \in first, b \in second, c \in third}

\* measures when the line is reached: as initialised, or as the lines of
\* PageFull before it have left them
MeasuresBefore == {InitialMeasures, ParseLines(InitialMeasures, PageFull)}

ScanInit ==
    /\ term_file = NoTermFile
    /\ Idle
    /\ input \in {[measures |-> m, line |-> l] : m \in MeasuresBefore, l \in Lines}
    /\ output = <<>>

\* the loop body of fetch_stockanalysis_data applied to one line
Scan ==
    /\ output = <<>>
    /\ output' = <<ParseLine(input.measures, input.line)>>
    /\ UNCHANGED <<input, invocation>>

ScanSpec == ScanInit /\ [][Scan]_vars

\* ------------------------------------------------------------------ claims
Configured == {ConfigTickers[i] : i \in 1..Len(ConfigTickers)}

\* the long table the running invocation found holds a row of this
\* ticker and source dated fetch_date
HadToday(t, src) ==
    \E i \in 1..Len(start_full.rows) :
        /\ start_full.rows[i].Fetch_Date = fetch_date
        /\ start_full.rows[i].Ticker = t
        /\ start_full.rows[i].Data_Source = src

CoveredAtStart(t) == \A src \in Sources : HadToday(t, src)

\* the rows this invocation has built for a ticker and a source
NewRows(t, src) == {i \in 1..Len(all_data) : all_data[i].Ticker = t /\ all_data[i].Data_Source = src}

Called(t, src) == \E i \in 1..Len(calls) : calls[i] = <<src, t>>

SecondRunSameDay == pc = "done" /\ runs >= 2 /\ prev_date = fetch_date

\* C1 as stated: a second run on the same day leaves the long table as the
\* first run left it; the second run adds no rows.
C1_SecondRunAddsNothing == SecondRunSameDay => full_csv = start_full

\* C1 as amended: a second run on the same day, started when every
\* configured ticker has rows of both sources for that day, builds no row
\* and leaves the long table as the first run left it.
C1_IdempotentOnceCovered ==
    (SecondRunSameDay /\ \A t \in Configured : CoveredAtStart(t))
        => (all_data = <<>> /\ full_csv = start_full)

C1_Witness ==
    SecondRunSameDay /\ start_full.exists /\ \A t \in Configured : CoveredAtStart(t)

RowKey(r) == <<r.Fetch_Date, r.Data_Source, r.Ticker, r.Measure>>

\* C2: the long table never holds two rows with the same
\* (Fetch_Date, Data_Source, Ticker, Measure).
C2_UniqueKeys ==
    \A i, j \in 1..Len(full_csv.rows) :
        i # j => RowKey(full_csv.rows[i]) # RowKey(full_csv.rows[j])

C4_AppendOnly ==
    (pc = "done" /\ full_csv # start_full) =>
        /\ Len(start_full.rows) <= Len(full_csv.rows)
        /\ SubSeq(full_csv.rows, 1, Len(start_full.rows)) = start_full.rows

\* C5: for a ticker that had today's rows of exactly one source when the run
\* started, the run does not fetch that source again and builds no row for it.
C5_FetchOnlyMissing ==
    \A t \in Configured : \A src \in Sources :
        (HadToday(t, src) /\ ~CoveredAtStart(t)) => (~Called(t, src) /\ NewRows(t, src) = {})

\* C6: a run that builds no row ends normally and leaves the long table and
\* the wide table as it found them.
C6_NoRowsNoWrite ==
    (pc \in {"done", "crashed"} /\ runs >= 1 /\ all_data = <<>>) =>
        (pc = "done" /\ full_csv = start_full /\ current_csv = start_current)

C6_Witness == pc = "done" /\ all_data = <<>> /\ runs >= 2 /\ full_csv.exists /\ current_csv.exists

\* the rows of the long table dated d
RowsDated(d) == {i \in 1..Len(full_csv.rows) : full_csv.rows[i].Fetch_Date = d}

\* after a run that appends rows, every row of the wide table carries the
\* date d and every filled cell is the Value_Formatted of a long row of that
\* date, ticker, source and measure
WideDerivedFrom(d) ==
    LET latest == RowsDated(d)
    IN  \A r \in current_csv.rows :
            /\ r.Fetch_Date = d
            /\ \A m \in current_csv.columns :
                r.cells[m] # "" =>
                    \E i \in latest :
                        /\ full_csv.rows[i].Ticker = r.Ticker
                        /\ full_csv.rows[i].Data_Source = r.Data_Source
                        /\ full_csv.rows[i].Measure = m
                        /\ full_csv.rows[i].Value_Formatted = r.cells[m]

\* the wide table has a row for every ticker with a long row dated d
WideCovers(d) ==
    \A t \in {full_csv.rows[i].Ticker : i \in RowsDated(d)} :
        \E r \in current_csv.rows : r.Ticker = t

\* C7, without its last part: after a run that appends rows every wide row
\* carries the latest Fetch_Date of the long table and every filled cell is
\* the Value_Formatted of a long row of that date, ticker, source and measure.
C7_WideDerivedFromLatest ==
    (pc = "done" /\ all_data # <<>>) => WideDerivedFrom(LatestDate(full_csv.rows))

\* C7: after a run that appends rows the wide table is rebuilt from the rows
\* of the latest Fetch_Date alone, and it covers every ticker that has rows
\* of that date (also those an earlier run of the day fetched).
C7_WideCoversLatest ==
    (pc = "done" /\ all_data # <<>>) =>
        LET d == LatestDate(full_csv.rows)
        IN  WideDerivedFrom(d) /\ WideCovers(d)

\* the fetch call returned "no record"
ReturnedNone(t, src) ==
    \E i \in 1..Len(returns) :
        returns[i].fn = src /\ returns[i].ticker = t /\ ~returns[i].record

\* C8: a total failure of fetch_yahoo_finance_data yields no record; the run
\* then has no yahoo_finance row for the ticker, still calls
\* fetch_stockanalysis_data for it and keeps its five rows, and still
\* processes every later ticker.
C8_YahooFailureSkipsSourceOnly ==
    /\ \A r \in YahooResults : ~r.ok => r.measures = <<>>
    /\ \A t \in Configured :
        (pc = "done" /\ ReturnedNone(t, "yahoo_finance")) =>
            /\ NewRows(t, "yahoo_finance") = {}
            /\ Called(t, "stockanalysis")
            /\ Cardinality(NewRows(t, "stockanalysis")) = Len(SALabels)
            /\ \A i \in 1..Len(tickers) : Called(tickers[i], "yahoo_finance")

C8_Witness ==
    /\ pc = "done"
    /\ Len(tickers) = 2
    /\ ReturnedNone(tickers[1], "yahoo_finance")
    /\ NewRows(tickers[2], "yahoo_finance") # {}

\* the fetch_stockanalysis_data call for the ticker left through its except clause
StockAnalysisRaised(t) ==
    \E i \in 1..Len(returns) :
        returns[i].fn = "stockanalysis" /\ returns[i].ticker = t /\ returns[i].raised

\* C9: fetch_stockanalysis_data always returns a record with exactly the
\* five labels; after a failure all five values are absent, and the run
\* keeps five rows formatted "N/A" for the ticker and the source.
C9_StockAnalysisAlwaysRecord ==
    /\ pc = "sa_finally" =>
        /\ Len(sa_result) = 5
        /\ \A i \in 1..5 : sa_result[i][1] = <<"PE Ratio", "Forward PE", "PS Ratio", "PB Ratio", "PEG Ratio">>[i]
        /\ sa_raised => \A i \in 1..5 : sa_result[i][2] = None
    /\ \A i \in 1..Len(returns) : returns[i].fn = "stockanalysis" => returns[i].record
    /\ \A t \in Configured :
        StockAnalysisRaised(t) =>
            /\ Cardinality(NewRows(t, "stockanalysis")) = 5
            /\ \A i \in NewRows(t, "stockanalysis") : all_data[i].Value_Formatted = "N/A"

C9_Witness == pc = "done" /\ \E t \in Configured : StockAnalysisRaised(t)

\* C10: no browser session outlives the fetch_stockanalysis_data call that
\* created it, on the normal and on the exception paths, so none is live
\* between two fetch calls and at most one is live at any time.
C10_SessionScoped ==
    /\ sessions <= 1
    /\ pc \notin {"sa_get", "sa_body", "sa_finally"} => sessions = 0

C10_Witness ==
    /\ pc \in {"yahoo", "save"}
    /\ sessions = 0
    /\ \E i \in 1..Len(returns) : returns[i].raised /\ returns[i].session
    /\ \E i \in 1..Len(returns) : returns[i].fn = "stockanalysis" /\ ~returns[i].raised

\* the labels whose two words are the first two tokens of a three-token
\* line with a third token that float() accepts
TokensName(line) ==
    {i \in 1..Len(SALabels) :
        /\ Len(Parts(line)) = 3
        /\ Parts(line)[1] = SALabels[i][1]
        /\ Parts(line)[2] = SALabels[i][2]
        /\ \E k \in 1..Len(FloatTokens) : FloatTokens[k][1] = Parts(line)[3]}

\* measures with the metrics in hit set to the number the third token is
SetTo(measures, hit, line) ==
    [i \in 1..Len(measures) |->
        IF i \in hit
        THEN <<LabelText(SALabels[i]), (CHOOSE k \in {FloatTokens[j] : j \in 1..Len(FloatTokens)} : k[1] = Parts(line)[3])[2]>>
        ELSE measures[i]]

\* C11 as stated: a line sets a metric if and only if it has exactly three
\* whitespace-separated tokens, the first two are the two words of the
\* metric's label and the third parses as a float; the metric takes that
\* number, and any other line changes no metric.
C11_TokensDecide ==
    output # <<>> => output[1] = SetTo(input.measures, TokensName(input.line), input.line)

\* C11 as amended: a line sets a metric if and only if it begins with the
\* label text (its two words one blank apart) followed by a blank, has
\* exactly three whitespace-separated tokens and the third parses as a
\* float; the metric takes that number, and any other line changes no metric.
C11_LabelPrefixDecides ==
    output # <<>> =>
        LET line == input.line
            hit == {i \in TokensName(line) : line[2] = " " /\ line[4] \in BlankFirst}
        IN  output[1] = SetTo(input.measures, hit, line)

C11_Witness ==
    /\ output # <<>>
    /\ input.line = <<"PE", " ", "Ratio", "  ", "9.1">>
    /\ input.measures # InitialMeasures
    /\ output[1] # input.measures

\* the raw-to-consolidated pairs of a source
MappingOf(src) ==
    IF src = "yahoo_finance" THEN term_mappings.yahoo_finance ELSE term_mappings.stockanalysis

\* the rows this invocation has built for a ticker and a source, in order
BuiltFor(t, src) ==
    LET mine(r) == r.Ticker = t /\ r.Data_Source = src
    IN  SelectSeq(all_data, mine)

\* C12: for every record a source returns, the run builds exactly one row
\* per label/value pair of the record, in the record's order, each with the
\* run's date, the source, the ticker, the consolidated label and the raw
\* value; a pair without a value still gets its row and no pair is dropped.
C12_OneRowPerPair ==
    \A k \in 1..Len(returns) :
        returns[k].record =>
            LET m == returns[k].measures
                built == BuiltFor(returns[k].ticker, returns[k].fn)
            IN  /\ Len(built) = Len(m)
                /\ \A i \in 1..Len(m) :
                    /\ built[i].Fetch_Date = fetch_date
                    /\ built[i].Measure = DictGet(MappingOf(returns[k].fn), m[i][1], m[i][1])
                    /\ built[i].Value_Raw = m[i][2]

\* --------------------------------------------- the rows built for one pair
\* a dictionary that gives Market Cap another consolidated name
TermFileRenamed ==
    [exists |-> TRUE,
     rows |-> << <<"Market Capitalization", "Market Cap", "Market Cap">>,
                 <<"Trailing P/E", "Trailing P/E", "PE Ratio">> >>]

FormatFiles == {NoTermFile, TermFile, TermFileRenamed}

\* values ticker.info can hold under a key: nothing, a text, a number
InfoValues ==
    {None, NaNFloat, Str("Infinity"), Str("-"), Num(3870000, 0), Num(2, 500000), Num(0, 45490),
     Num(1000000, 0), Num(999999, 500000000), Num(245120, 0), Num(1000, 0),
     Num(999, 994000000), Num(1, 0), Num(0, 999999000), Num(0, 999999996)}

\* values of a measures record of fetch_stockanalysis_data: None or a float
MeasureValues == {v \in InfoValues : v.k # "str"}

FormatInit ==
    /\ term_file \in FormatFiles
    /\ Idle
    /\ input \in {[yahoo_finance |-> <<InfoFull[i][1], v>>, stockanalysis |-> <<LabelText(SALabels[j]), w>>] :
                    i \in 1..Len(InfoFull), v \in InfoValues, j \in 1..Len(SALabels), w \in MeasureValues}
    /\ output = <<>>

\* the two row-building loops of crawl_magnificent7, each over a record of
\* one pair; a loop whose formatting raises leaves no row
Build ==
    /\ output = <<>>
    /\ LET maps == load_term_conversion_table(term_file)
       IN  output' = <<[yahoo_finance |-> YahooRows(today, "AAPL", maps, <<input.yahoo_finance>>),
                        stockanalysis |-> StockAnalysisRows(today, "AAPL", maps, <<input.stockanalysis>>)]>>
    /\ UNCHANGED <<input, invocation>>

FormatSpec == FormatInit /\ [][Build]_vars

\* the rows Build made for the pair of a source
Built(src) == IF src = "yahoo_finance" THEN output[1].yahoo_finance ELSE output[1].stockanalysis

PairOf(src) == IF src = "yahoo_finance" THEN input.yahoo_finance ELSE input.stockanalysis

\* C13: a pair whose value is missing, or present but not a number, gets a
\* row whose Value_Formatted is exactly "N/A", whether its metric is monetary
\* or not; building the row does not raise and the raw text is never shown.
C13_NotNumericIsNA ==
    output # <<>> =>
        \A src \in Sources :
            PairOf(src)[2].k \in {"none", "str"} =>
                /\ Len(Built(src)) = 1
                /\ Built(src)[1].Value_Formatted = "N/A"

\* C14: the magnitude-suffix formatting is applied to a row exactly when its
\* consolidated name is Market Cap or Enterprise Value, and two rows of the
\* two sources with the same consolidated name and the same value carry the
\* same Value_Formatted, whatever the term dictionary.
C14_MonetaryByConsolidatedName ==
    output # <<>> =>
        /\ \A src \in Sources :
            (Built(src) # <<>> /\ PairOf(src)[2].k # "str") =>
                Built(src)[1].Value_Formatted =
                    IF Built(src)[1].Measure \in {"Market Cap", "Enterprise Value"}
                    THEN format_large_number(PairOf(src)[2])
                    ELSE PlainFormat(PairOf(src)[2])
        /\ (/\ Built("yahoo_finance") # <<>>
            /\ Built("yahoo_finance")[1].Measure = Built("stockanalysis")[1].Measure
            /\ Built("yahoo_finance")[1].Value_Raw = Built("stockanalysis")[1].Value_Raw)
               => Built("yahoo_finance")[1].Value_Formatted = Built("stockanalysis")[1].Value_Formatted

\* C15: a run never ends in a fatal error, and when it has ended every
\* ticker whose fetch_yahoo_finance_data call returned no record is in the
\* failure list the run reports.
C15_FailuresReported ==
    /\ pc # "crashed"
    /\ pc = "done" =>
        \A t \in Configured :
            ReturnedNone(t, "yahoo_finance") => \E i \in 1..Len(failed) : failed[i] = t

\* a fetch of the running invocation failed for the ticker: the structured
\* source returned no record, or the text source a record without any value
FetchFailed(t) ==
    \/ ReturnedNone(t, "yahoo_finance")
    \/ \E k \in 1..Len(returns) :
        /\ returns[k].fn = "stockanalysis"
        /\ returns[k].ticker = t
        /\ \A i \in 1..Len(returns[k].measures) : returns[k].measures[i][2] = None

\* C16: within a run no (source, ticker) fetch is called twice, and a
\* ticker with a failed fetch in a run is in the list of tickers to fetch of
\* the next run started on the same day.
C16_FailedFetchedAgain ==
    /\ [](\A i, j \in 1..Len(calls) : calls[i] = calls[j] => i = j)
    /\ [][(pc = "done" /\ runs' = runs + 1 /\ today = fetch_date) =>
            \A t \in Configured :
                FetchFailed(t) => \E i \in 1..Len(tickers') : tickers'[i] = t]_vars

\* ------------------------------------------ the consolidation of one label
\* the dictionary row (Market Cap, Market Cap, empty)
TermFileEmptyCell == [exists |-> TRUE, rows |-> << <<"Market Cap", "Market Cap", "">> >>]

\* a dictionary that names one raw label of each source in two rows
TermFileTwice ==
    [exists |-> TRUE,
     rows |-> << <<"P/E", "Trailing P/E", "PE Ratio">>,
                 <<"Trailing P/E", "Trailing P/E", "PE Ratio">> >>]

ConsolidateFiles == {NoTermFile, TermFile, TermFileRenamed, TermFileTwice, TermFileEmptyCell}

\* the labels the two extractors produce, and one neither does
RawLabels ==
    {InfoFull[i][1] : i \in 1..Len(InfoFull)} \cup {LabelText(SALabels[i]) : i \in 1..Len(SALabels)} \cup {"Beta"}

ConsolidateInit ==
    /\ term_file \in ConsolidateFiles
    /\ Idle
    /\ input \in [source : Sources, label : RawLabels]
    /\ output = <<>>

\* term_mappings = load_term_conversion_table(), then
\* term_mappings[source].get(measure_name, measure_name)
Consolidate ==
    /\ output = <<>>
    /\ output' =
        IF LoadTermsRaises(term_file) THEN <<[raised |-> TRUE, term |-> ""]>>
        ELSE LET maps == load_term_conversion_table(term_file)
                 pairs == IF input.source = "yahoo_finance" THEN maps.yahoo_finance ELSE maps.stockanalysis
             IN  <<[raised |-> FALSE, term |-> DictGet(pairs, input.label, input.label)]>>
    /\ UNCHANGED <<input, invocation>>

ConsolidateSpec == ConsolidateInit /\ [][Consolidate]_vars

\* the rows of the dictionary whose cell for the source is the label
RowsNaming(source, label) ==
    {i \in 1..Len(term_file.rows) :
        term_file.rows[i][IF source = "yahoo_finance" THEN 2 ELSE 3] = label}

\* C17: for each source a raw label always consolidates to one term: the
\* consolidated term of a dictionary row that names it for that source, or
\* the label itself when no row does; without a dictionary file every label
\* consolidates to itself and loading does not fail.
C17_TotalWithIdentityFallback ==
    output # <<>> =>
        /\ ~term_file.exists => (~output[1].raised /\ output[1].term = input.label)
        /\ ~output[1].raised =>
            LET named == RowsNaming(input.source, input.label)
            IN  IF named = {} THEN output[1].term = input.label
                ELSE \E i \in named : output[1].term = term_file.rows[i][1]

C17_Witness ==
    /\ output # <<>>
    /\ term_file = TermFile
    /\ input = [source |-> "stockanalysis", label |-> "PE Ratio"]
    /\ output[1].term = "Trailing P/E"

\* C18: with the dictionary row (Market Cap, Market Cap, empty) loading
\* succeeds, and the yahoo_finance label Market Cap consolidates to Market Cap.
C18_EmptyCellLoads ==
    (output # <<>> /\ term_file = TermFileEmptyCell) =>
        /\ ~output[1].raised
        /\ input = [source |-> "yahoo_finance", label |-> "Market Cap"] => output[1].term = "Market Cap"

\* the rows of the long table dated d of a ticker, a source and a measure
RowsOf(d, t, src, m) ==
    {i \in RowsDated(d) :
        /\ full_csv.rows[i].Ticker = t
        /\ full_csv.rows[i].Data_Source = src
        /\ full_csv.rows[i].Measure = m}

\* C19: after a run that appends rows, the wide table has exactly one row
\* for each (Ticker, Data_Source) pair with rows of the latest date in the
\* long table, also for a pair whose values are all missing, and a cell
\* whose (ticker, source, measure) has long rows of that date holds the
\* Value_Formatted of the first of them in table order.
C19_OneRowPerPairFirstWins ==
    (pc = "done" /\ all_data # <<>>) =>
        LET d == LatestDate(full_csv.rows)
            pairs == {<<full_csv.rows[i].Ticker, full_csv.rows[i].Data_Source>> : i \in RowsDated(d)}
        IN  /\ {<<r.Ticker, r.Data_Source>> : r \in current_csv.rows} = pairs
            /\ Cardinality(current_csv.rows) = Cardinality(pairs)
            /\ \A r \in current_csv.rows : \A m \in current_csv.columns :
                LET same == RowsOf(d, r.Ticker, r.Data_Source, m)
                IN  same # {} =>
                        r.cells[m] = full_csv.rows[CHOOSE i \in same : \A j \in same : i <= j].Value_Formatted

\* C20: after a run that appends rows, the wide table has a column for
\* every measure with rows of the latest date in the long table, no cell of
\* it is empty, and a cell whose (ticker, source, measure) has no long row
\* of that date holds "N/A".
C20_GapsHoldNA ==
    (pc = "done" /\ all_data # <<>>) =>
        LET d == LatestDate(full_csv.rows)
        IN  /\ current_csv.columns = {full_csv.rows[i].Measure : i \in RowsDated(d)}
            /\ \A r \in current_csv.rows : \A m \in current_csv.columns :
                /\ r.cells[m] # ""
                /\ RowsOf(d, r.Ticker, r.Data_Source, m) = {} => r.cells[m] = "N/A"

\* the fetch of the source returned a record for the ticker
ReturnedRecord(t, src) ==
    \E k \in 1..Len(returns) : returns[k].fn = src /\ returns[k].ticker = t /\ returns[k].record

\* a first run over an absent long table in which both sources delivered
\* for ticker a, and for ticker b the structured source delivered while the
\* text source returned its record without any value
FirstRunOneTextFailure(a, b) ==
    /\ pc = "done"
    /\ runs = 1
    /\ ~start_full.exists
    /\ failed = <<>>
    /\ ReturnedRecord(a, "yahoo_finance") /\ ReturnedRecord(b, "yahoo_finance")
    /\ ReturnedRecord(a, "stockanalysis") /\ ~FetchFailed(a)
    /\ StockAnalysisRaised(b)

\* the rows of the long table of a ticker and a source
LongRows(t, src) ==
    {i \in 1..Len(full_csv.rows) : full_csv.rows[i].Ticker = t /\ full_csv.rows[i].Data_Source = src}

\* C21: from no long table and two tickers, with both sources delivering
\* for the first and the text source returning all-missing for the second,
\* one run leaves 28 rows in the long table: 9 yahoo_finance and 5
\* stockanalysis rows per ticker, the second ticker's 5 stockanalysis rows
\* formatted "N/A"; the wide table has exactly 4 rows.
C21_EndToEnd ==
    \A a, b \in Configured :
        (a # b /\ FirstRunOneTextFailure(a, b)) =>
            /\ Len(full_csv.rows) = 28
            /\ \A t \in {a, b} :
                /\ Cardinality(LongRows(t, "yahoo_finance")) = 9
                /\ Cardinality(LongRows(t, "stockanalysis")) = 5
            /\ \A i \in LongRows(b, "stockanalysis") : full_csv.rows[i].Value_Formatted = "N/A"
            /\ Cardinality(current_csv.rows) = 4
            /\ {<<r.Ticker, r.Data_Source>> : r \in current_csv.rows} = {a, b} \X Sources

C21_Witness == FirstRunOneTextFailure("AAPL", "MSFT") /\ current_csv.exists

\* numbers on both sides of 10^12, 10^9 and 10^6 with the unit their range
\* gives them and the two-decimal text of the number divided by that unit
LargeNumberTexts ==
    << <<Num(3870000, 0), "3.87", "T">>,
       <<Num(1000000, 0), "1.00", "T">>,
       <<Num(999999, 500000000), "1000.00", "B">>,
       <<Num(245120, 0), "245.12", "B">>,
       <<Num(1000, 0), "1.00", "B">>,
       <<Num(999, 994000000), "999.99", "M">>,
       <<Num(2, 500000), "2.00", "M">>,
       <<Num(1, 0), "1.00", "M">>,
       <<Num(0, 999999996), "1000000.00", "">>,
       <<Num(0, 999999000), "999999.00", "">>,
       <<Num(0, 45490), "45.49", "">> >>

\* C22: format_large_number gives a number of at least 10^12 its value in
\* trillions with two decimals and "T", one from 10^9 up to 10^12 its value
\* in billions and "B", one from 10^6 up to 10^9 its value in millions and
\* "M", and one below 10^6 its plain two-decimal text; 10^12, 10^9 and 10^6
\* themselves take the larger unit.
C22_MagnitudeSuffix ==
    (output # <<>> /\ input.yahoo_finance[1] \in {"Market Cap", "Enterprise Value"}) =>
        \A k \in 1..Len(LargeNumberTexts) :
            input.yahoo_finance[2] = LargeNumberTexts[k][1] =>
                /\ Len(output[1].yahoo_finance) = 1
                /\ output[1].yahoo_finance[1].Value_Formatted = LargeNumberTexts[k][2] \o LargeNumberTexts[k][3]

C22_Witness ==
    /\ output # <<>>
    /\ input.yahoo_finance = <<"Market Cap", Num(1000, 0)>>
    /\ output[1].yahoo_finance[1].Value_Formatted = "1.00B"

\* C23: a row of a non-monetary measure whose raw value is missing carries
\* the Value_Formatted "N/A" when it is built, and still carries it in the
\* long table after every later run.
C23_MissingStaysNA ==
    /\ \A i \in 1..Len(all_data) :
        (IsMissing(all_data[i].Value_Raw) /\ all_data[i].Measure \notin {"Market Cap", "Enterprise Value"})
            => all_data[i].Value_Formatted = "N/A"
    /\ \A i \in 1..Len(full_csv.rows) :
        (full_csv.rows[i].Value_Raw = "" /\ full_csv.rows[i].Measure \notin {"Market Cap", "Enterprise Value"})
            => full_csv.rows[i].Value_Formatted = "N/A"

\* ------------------------------------------------- the ticker configuration
ConfigFiles ==
    LET symbols == {"AAPL", "MSFT", "NVDA", "TSLA"}
        lists == {<<>>} \cup {<<a>> : a \in symbols} \cup {<<a, b>> : a \in symbols, b \in symbols}
                 \cup {<<a, b, c>> : a \in symbols, b \in symbols, c \in symbols}
    IN  {NoConfigFile, EmptyConfigFile} \cup {[exists |-> TRUE, mapping |-> TRUE, tickers |-> l] : l \in lists}

TickersInit ==
    /\ term_file = NoTermFile
    /\ Idle
    /\ input \in ConfigFiles
    /\ output = <<>>

\* tickers = load_tickers_from_config()
LoadTickers ==
    /\ output = <<>>
    /\ output' =
        IF LoadTickersRaises(input) THEN <<[raised |-> TRUE, tickers |-> <<>>]>>
        ELSE <<[raised |-> FALSE, tickers |-> load_tickers_from_config(input)]>>
    /\ UNCHANGED <<input, invocation>>

TickersSpec == TickersInit /\ [][LoadTickers]_vars

\* C24: load_tickers_from_config returns the configured tickers in their
\* order; when the file is missing or lists no ticker it returns AAPL, MSFT,
\* GOOG, AMZN, META, NVDA, TSLA in that order, and it never fails.
C24_ConfiguredOrDefault ==
    output # <<>> =>
        /\ ~output[1].raised
        /\ output[1].tickers =
            IF input.exists /\ input.tickers # <<>> THEN input.tickers
            ELSE <<"AAPL", "MSFT", "GOOG", "AMZN", "META", "NVDA", "TSLA">>

\* the place of a ticker in a list that holds it once
PlaceIn(seq, t) == CHOOSE i \in 1..Len(seq) : seq[i] = t

\* a fetch_stockanalysis_data call has not returned yet
InTextFetch == pc \in {"sa_get", "sa_body", "sa_finally"}

OtherSource == "nasdaq"

\* (Fetch_Date, Ticker, Data_Source) of the rows a long table may hold, in
\* table order; date 1 is today, date 0 an earlier day
StoredKeys ==
    << <<0, "AAPL", "yahoo_finance">>, <<0, "AAPL", "stockanalysis">>, <<0, "AAPL", OtherSource>>,
       <<0, "MSFT", "yahoo_finance">>, <<0, "MSFT", "stockanalysis">>, <<0, "MSFT", OtherSource>>,
       <<1, "AAPL", "yahoo_finance">>, <<1, "AAPL", "stockanalysis">>, <<1, "AAPL", OtherSource>>,
       <<1, "MSFT", "yahoo_finance">>, <<1, "MSFT", "stockanalysis">>, <<1, "MSFT", OtherSource>> >>

\* the long table with one row for each of the chosen keys
LongTable(chosen) ==
    LET held(k) == k \in chosen
        keys == SelectSeq(StoredKeys, held)
    IN  [exists |-> TRUE,
         rows |-> [i \in 1..Len(keys) |->
            [Fetch_Date |-> keys[i][1], Data_Source |-> keys[i][3], Ticker |-> keys[i][2],
             Measure |-> "PE Ratio", Value_Raw |-> "45.49", Value_Formatted |-> "45.49"]]]

CoverageInit ==
    /\ term_file = NoTermFile
    /\ Idle
    /\ input \in {NoFile} \cup {LongTable(c) : c \in SUBSET {StoredKeys[i] : i \in 1..Len(StoredKeys)}}
    /\ output = <<>>

\* crawl_magnificent7 from the coverage check to tickers_to_fetch
CoverageCheck ==
    /\ output = <<>>
    /\ LET existing_tickers_today == ExistingTickersToday(input, today)
       IN  output' = <<[covered |-> existing_tickers_today,
                        tickers_to_fetch |-> Without(load_tickers_from_config(ConfigFile), existing_tickers_today)]>>
    /\ UNCHANGED <<input, invocation>>

CoverageSpec == CoverageInit /\ [][CoverageCheck]_vars

\* the long table holds a row of today for the ticker and the source
StoredToday(t, src) ==
    \E i \in 1..Len(input.rows) :
        /\ input.rows[i].Fetch_Date = today
        /\ input.rows[i].Ticker = t
        /\ input.rows[i].Data_Source = src

\* C26: a configured ticker is left out of the tickers to fetch exactly
\* when the long table holds rows of today for it from yahoo_finance and
\* from stockanalysis, whatever rows of other Data_Source values it holds.
C26_CoveredIffBothSources ==
    output # <<>> =>
        \A t \in Configured :
            (\A i \in 1..Len(output[1].tickers_to_fetch) : output[1].tickers_to_fetch[i] # t)
                <=> (StoredToday(t, "yahoo_finance") /\ StoredToday(t, "stockanalysis"))

\* the pairs of the Yahoo record of the ticker that come before the first
\* one whose value is a text under a non-monetary label (0: no such pair,
\* or no record)
PairsBeforeText(t) ==
    IF \E k \in 1..Len(returns) : returns[k].fn = "yahoo_finance" /\ returns[k].ticker = t
    THEN LET m == returns[CHOOSE k \in 1..Len(returns) : returns[k].fn = "yahoo_finance" /\ returns[k].ticker = t].measures
             texts == {i \in 1..Len(m) : m[i][2].k = "str" /\ m[i][1] \notin {"Market Cap", "Enterprise Value"}}
         IN  IF texts = {} THEN 0 ELSE (CHOOSE i \in texts : \A j \in texts : i <= j) - 1
    ELSE 0

\* building the rows of the ticker's Yahoo record raised after some rows
RaisedAfterRows(t) == PairsBeforeText(t) > 0

\* C27: when the processing of a ticker raises after some of its rows were
\* accumulated, the ticker is in the failure list, fetch_stockanalysis_data
\* is not called for it, every later ticker is still processed, and the
\* rows accumulated before the exception are among the rows the run appends
\* to the long table.
C27_ExceptionKeepsRows ==
    \A t \in Configured :
        RaisedAfterRows(t) =>
            /\ \E i \in 1..Len(failed) : failed[i] = t
            /\ ~Called(t, "stockanalysis")
            /\ Cardinality(NewRows(t, "yahoo_finance")) = PairsBeforeText(t)
            /\ pc = "done" =>
                /\ \A i \in 1..Len(tickers) : Called(tickers[i], "yahoo_finance")
                /\ Len(full_csv.rows) = Len(start_full.rows) + Len(all_data)
                /\ \A i \in 1..Len(all_data) :
                    LET stored == full_csv.rows[Len(start_full.rows) + i]
                    IN  /\ RowKey(stored) = RowKey(all_data[i])
                        /\ stored.Value_Formatted = all_data[i].Value_Formatted

C27_Witness ==
    /\ pc = "done"
    /\ RaisedAfterRows("AAPL")
    /\ Called("MSFT", "stockanalysis")
    /\ full_csv.exists

=============================================================================
